---- MODULE Spec2Model ----
(***************************************************************************)
(* FaceMesh Landmark Selector: the App component's group state (groups,    *)
(* activeGroupId, landmarks, symmetryMap, the asynchronous JSON import and *)
(* image load) and the CanvasArea component's view and gesture state       *)
(* (scale, pan, isDragging, isPanning, lastMousePos, hover).               *)
(*                                                                         *)
(* Numbers: JavaScript doubles are modelled as exact rationals <<n, d>>    *)
(* (d > 0, lowest terms); rounding error is outside the model.             *)
(* Scheduling: React re-renders between two events, so every handler sees  *)
(* the state of the latest render; the one closure that outlives a render  *)
(* is the file-reader callback of handleImportJSON, which is modelled with *)
(* the activeGroupId it captured.                                          *)
(* generateId() draws a random 9-character string; the model returns an id *)
(* that is not in use (a collision is not modelled).                       *)
(***************************************************************************)
EXTENDS Integers, Sequences, FiniteSets, TLC

(***************************************************************************)
(* Bounds of the model.                                                    *)
(***************************************************************************)
\* most groups the list is allowed to grow to (add group, object import)
MaxGroups == 2
\* most wheel and pan-move events between two image loads
MaxViewOps == 2

(***************************************************************************)
(* Rational arithmetic.                                                    *)
(***************************************************************************)
Abs(n) == IF n < 0 THEN -n ELSE n

RECURSIVE Gcd(_, _)
Gcd(a, b) == IF b = 0 THEN a ELSE Gcd(b, a % b)

Rat(n, d) ==
    IF d = 1 THEN <<n, 1>>
    ELSE LET s == IF d < 0 THEN -1 ELSE 1
             g == Gcd(Abs(n), Abs(d))
         IN  <<(s * n) \div g, (s * d) \div g>>

I(n) == <<n, 1>>
RAdd(a, b) == Rat(a[1] * b[2] + b[1] * a[2], a[2] * b[2])
RSub(a, b) == Rat(a[1] * b[2] - b[1] * a[2], a[2] * b[2])
RMul(a, b) == Rat(a[1] * b[1], a[2] * b[2])
RDiv(a, b) == Rat(a[1] * b[2], a[2] * b[1])
RLt(a, b) == a[1] * b[2] < b[1] * a[2]
RLe(a, b) == a[1] * b[2] <= b[1] * a[2]
RSq(a) == RMul(a, a)
RMax(a, b) == IF RLt(a, b) THEN b ELSE a
RMin(a, b) == IF RLt(b, a) THEN b ELSE a

(***************************************************************************)
(* null and present values (useState<T | null>).                           *)
(***************************************************************************)
NULL == <<>>
Some(v) == <<v>>
Val(o) == o[1]

(***************************************************************************)
(* Points and images.  A landmark is {x, y, z} in normalized image         *)
(* coordinates; the JS array index i is position i + 1 of the sequence.    *)
(***************************************************************************)
Pt(x, y, z) == [x |-> x, y |-> y, z |-> z]
At(lm, i) == lm[i + 1]
Indices(lm) == 0 .. (Len(lm) - 1)

\* a detection result of three points (world (0,0), (10,0), (10,10) on a
\* 40 x 40 image)
FaceA == << Pt(I(0), I(0), I(0)),
            Pt(Rat(1, 4), I(0), I(0)),
            Pt(Rat(1, 4), Rat(1, 4), I(0)) >>

\* images the user can load: natural size, and what detectFace does on it
TestImage == [name |-> "test.png",  w |-> 40, h |-> 40, detect |-> "face",   face |-> FaceA]
BlankImage == [name |-> "blank.png", w |-> 20, h |-> 20, detect |-> "none",   face |-> <<>>]
BadImage == [name |-> "bad.png",   w |-> 40, h |-> 40, detect |-> "throws", face |-> <<>>]
Images == {TestImage, BlankImage, BadImage}

\* a detection result of 11 points: it has the forehead point 10 but neither
\* the chin point 152 nor the glabella point 168
PartialFace ==
    [i \in 1 .. 11 |-> IF i - 1 = 10 THEN Pt(Rat(1, 2), I(0), I(0))
                       ELSE Pt(Rat(i - 1, 16), I(0), I(0))]

\* a detection result of 169 points with all midline points, mirror plane
\* x = 1/2: 0 at (0,0,0) has the two mirror points 2 and 3 at (1,0,0); 4 at
\* (1/8,0,0) has no exact mirror point; 1, 10, 152, 168 span the plane; all
\* other points coincide at one point of the plane
FullFace ==
    [i \in 1 .. 169 |->
        CASE i - 1 = 0 -> Pt(I(0), I(0), I(0))
          [] i - 1 = 1 -> Pt(Rat(1, 2), Rat(1, 2), I(-1))
          [] i - 1 = 2 -> Pt(I(1), I(0), I(0))
          [] i - 1 = 3 -> Pt(I(1), I(0), I(0))
          [] i - 1 = 4 -> Pt(Rat(1, 8), I(0), I(0))
          [] i - 1 = 10 -> Pt(Rat(1, 2), I(0), I(0))
          [] i - 1 = 152 -> Pt(Rat(1, 2), I(1), I(0))
          [] i - 1 = 168 -> Pt(Rat(1, 2), Rat(1, 4), I(0))
          [] OTHER -> Pt(Rat(1, 2), Rat(1, 2), I(1))]

\* the 169-point set with the nose tip 1 moved onto the line through the
\* forehead point 10 and the chin point 152: cross(vY, vZ) is the zero vector
FlatFace == [FullFace EXCEPT ![2] = Pt(Rat(1, 2), Rat(1, 2), I(0))]

PartialImage == [name |-> "partial.png", w |-> 40, h |-> 40, detect |-> "face", face |-> PartialFace]
FullImage == [name |-> "full.png", w |-> 40, h |-> 40, detect |-> "face", face |-> FullFace]
FlatImage == [name |-> "flat.png", w |-> 40, h |-> 40, detect |-> "face", face |-> FlatFace]

\* getRandomColor's palette
Palette == <<"#bb86fc", "#03dac6", "#cf6679", "#ffb74d", "#4dd0e1", "#aed581">>

DefaultGroup == [id |-> 1, name |-> "Default", indices |-> {}, visible |-> TRUE,
                 color |-> "#bb86fc"]

\* canvas positions of pointer and wheel events
ScreenPts == { <<0, 0>>, <<10, 10>> }
\* Math.exp(-deltaY * zoomSensitivity) for the wheel deltas of the model
ZoomFactors == { Rat(2, 1), Rat(400, 1), Rat(1, 400) }
\* positions of the brush-size slider (min 1, max 50)
BrushSizes == {10, 15}
Modes == {"add", "subtract"}
DotColors == {"white", "black"}

VARIABLES
    loading,        \* App: FaceMesh still initializing
    landmarks,      \* App: NULL or Some(point sequence)
    groups,         \* App: sequence of SelectionGroup
    activeGroupId,  \* App
    brushSize,      \* App
    dotColor,       \* App: "white" or "black"
    mode,           \* App
    symmetryMap,    \* App: function index -> index (Record<number, number>)
    importPending,  \* NULL, or Some(activeGroupId captured by the import in flight)
    alerts,         \* number of alert() calls of the last handler (0 or 1)
    imgElement,     \* CanvasArea: NULL or Some(image)
    scale,          \* CanvasArea
    pan,            \* CanvasArea: [x, y]
    isDragging,     \* CanvasArea ref
    isPanning,      \* CanvasArea ref
    lastMousePos,   \* CanvasArea ref
    hoveredIndex,   \* CanvasArea: NULL or Some(index)
    viewOps,        \* model: wheel and pan-move events since the last load
    last            \* history: the handler that ran last, with its inputs

appVars == <<loading, landmarks, groups, activeGroupId, dotColor,
             brushSize, mode, symmetryMap, importPending, alerts>>
canvasVars == <<imgElement, scale, pan, isDragging, isPanning, lastMousePos,
                hoveredIndex, viewOps>>
vars == <<appVars, canvasVars, last>>

Init ==
    /\ loading = TRUE
    /\ landmarks = NULL
    /\ groups = <<DefaultGroup>>
    /\ activeGroupId = 1
    /\ brushSize = 10
    /\ dotColor = "white"
    /\ mode = "add"
    /\ symmetryMap = << >>
    /\ importPending = NULL
    /\ alerts = 0
    /\ imgElement = NULL
    /\ scale = I(1)
    /\ pan = [x |-> I(0), y |-> I(0)]
    /\ isDragging = FALSE
    /\ isPanning = FALSE
    /\ lastMousePos = <<0, 0>>
    /\ hoveredIndex = NULL
    /\ viewOps = 0
    /\ last = [op |-> "init"]

\* every handler records itself and its inputs; imgOnload and handleWheel
\* also record the scale, and handleDeleteGroup the length of the list and
\* the active id, they started from; the pointer handlers record whether
\* onSelectionChange was called (handlePointerDown the button and the Shift
\* key too), and handleExport the object it wrote
Hist(op) == last' = op

(***************************************************************************)
(* utils/geometry: vector helpers and calculateSymmetryMap.                *)
(***************************************************************************)
sub(a, b) == [x |-> RSub(a.x, b.x), y |-> RSub(a.y, b.y), z |-> RSub(a.z, b.z)]

cross(a, b) ==
    [x |-> RSub(RMul(a.y, b.z), RMul(a.z, b.y)),
     y |-> RSub(RMul(a.z, b.x), RMul(a.x, b.z)),
     z |-> RSub(RMul(a.x, b.y), RMul(a.y, b.x))]

dot(a, b) == RAdd(RAdd(RMul(a.x, b.x), RMul(a.y, b.y)), RMul(a.z, b.z))

scaleVec(a, s) == [x |-> RMul(a.x, s), y |-> RMul(a.y, s), z |-> RMul(a.z, s)]

\* a / |a|, kept exact as the pair (direction, |direction|^2): the vector it
\* stands for is dir / sqrt(lenSq); the zero vector when len = 0
normalize(a) ==
    LET lenSq == dot(a, a)
    IN  IF lenSq = I(0)
        THEN [dir |-> Pt(I(0), I(0), I(0)), lenSq |-> I(1)]
        ELSE [dir |-> a, lenSq |-> lenSq]

\* variant of Reflection: P - dot(P - P0, n) * n, the foot of P on the plane
ReflectionOnto(p, planePoint, planeNormal) ==
    LET v == sub(p, planePoint)
        distLen == dot(v, planeNormal.dir)
    IN  sub(p, scaleVec(planeNormal.dir, RDiv(distLen, planeNormal.lenSq)))

\* P - 2 * dot(P - P0, n) * n for n = planeNormal.dir / sqrt(planeNormal.lenSq)
Reflection(p, planePoint, planeNormal) ==
    LET v == sub(p, planePoint)
        distLen == dot(v, planeNormal.dir)
    IN  sub(p, scaleVec(planeNormal.dir,
                        RDiv(RMul(I(2), distLen), planeNormal.lenSq)))

DistSq3(q, r) ==
    RAdd(RAdd(RSq(RSub(q.x, r.x)), RSq(RSub(q.y, r.y))), RSq(RSub(q.z, r.z)))

\* variant of NearerOf: the second wins when it is as near as the first
\* (if (d <= bestDist))
NearerOfLast(first, second) ==
    IF first = NULL THEN second
    ELSE IF second = NULL THEN first
    ELSE IF RLe(Val(second).d, Val(first).d) THEN second
    ELSE first

\* the first of two loop results in index order wins unless the second is
\* strictly nearer (if (d < bestDist)); NULL is (Infinity, -1)
NearerOf(first, second) ==
    IF first = NULL THEN second
    ELSE IF second = NULL THEN first
    ELSE IF RLt(Val(second).d, Val(first).d) THEN second
    ELSE first

\* the inner loop over j for j = lo .. hi - 1: NULL or Some([d, idx]).  The
\* range is scanned as its lower half and its upper half, which keeps the
\* nesting of the evaluation low; the result is that of the scan in index
\* order.
RECURSIVE NearestIn(_, _, _, _)
NearestIn(lm, r, lo, hi) ==
    IF lo >= hi THEN NULL
    ELSE IF hi = lo + 1 THEN Some([d |-> DistSq3(At(lm, lo), r), idx |-> lo])
    ELSE LET mid == (lo + hi) \div 2
         IN  NearerOf(NearestIn(lm, r, lo, mid), NearestIn(lm, r, mid, hi))

\* the inner loop over j from j on, started with best: bestIdx
NearestFrom(lm, r, j, best) ==
    LET found == NearerOf(best, NearestIn(lm, r, j, Len(lm)))
    IN  IF found = NULL THEN -1 ELSE Val(found).idx

IdxForehead == 10
IdxChin == 152
IdxGlabella == 168
IdxNoseTip == 1

\* planePoint: the mean of the three midline points
PlanePoint(lm) ==
    LET p10 == At(lm, IdxForehead)
        p152 == At(lm, IdxChin)
        p168 == At(lm, IdxGlabella)
        three == I(3)
    IN  [x |-> RDiv(RAdd(RAdd(p10.x, p152.x), p168.x), three),
         y |-> RDiv(RAdd(RAdd(p10.y, p152.y), p168.y), three),
         z |-> RDiv(RAdd(RAdd(p10.z, p152.z), p168.z), three)]

\* planeNormal: normalize(cross(vY, vZ))
PlaneNormal(lm) ==
    LET p10 == At(lm, IdxForehead)
        p152 == At(lm, IdxChin)
        p1 == At(lm, IdxNoseTip)
        vY == sub(p10, p152)
        vZ == sub(p1, p152)
    IN  normalize(cross(vY, vZ))

calculateSymmetryMap(lm) ==
    IF ~(IdxForehead < Len(lm) /\ IdxChin < Len(lm) /\ IdxGlabella < Len(lm))
    THEN << >>
    ELSE
        LET P0 == PlanePoint(lm)
            n == PlaneNormal(lm)
        IN  [i \in Indices(lm) |->
                NearestFrom(lm, Reflection(At(lm, i), P0, n), 0, NULL)]

(***************************************************************************)
(* App: helpers on the group list.                                         *)
(***************************************************************************)
GroupIds(gs) == {gs[k].id : k \in 1 .. Len(gs)}

\* groups.find(g => g.id === id): NULL or Some(first match)
RECURSIVE Find(_, _)
Find(gs, id) ==
    IF gs = <<>> THEN NULL
    ELSE IF Head(gs).id = id THEN Some(Head(gs))
    ELSE Find(Tail(gs), id)

\* groups.filter(g => g.id !== id)
RECURSIVE FilterNotId(_, _)
FilterNotId(gs, id) ==
    IF gs = <<>> THEN <<>>
    ELSE IF Head(gs).id # id THEN <<Head(gs)>> \o FilterNotId(Tail(gs), id)
    ELSE FilterNotId(Tail(gs), id)

\* generateId(): an id no group, closure or earlier call of this handler holds
generateId(used) ==
    CHOOSE n \in 2 .. (Cardinality(used) + 2) :
        /\ n \notin used
        /\ \A m \in 2 .. (n - 1) : m \in used

IdsInUse == GroupIds(groups) \cup {activeGroupId}
            \cup {importPending[k] : k \in 1 .. Len(importPending)}

(***************************************************************************)
(* App: initFaceMesh and the image load effect of CanvasArea.              *)
(* CanvasArea receives imageSrc only once loading is over; handleUpload    *)
(* replaces imageSrc at any time and the effect then creates an Image      *)
(* whose onload fires later, uncancelled.  imageSrc itself is read by      *)
(* nothing else, so the model has the onload event of any image at any     *)
(* time after loading is over.                                             *)
(***************************************************************************)
\* initFaceMesh().then(() => setLoading(false))
InitFaceMeshDone ==
    /\ loading
    /\ loading' = FALSE
    /\ alerts' = 0
    /\ Hist([op |-> "initDone"])
    /\ UNCHANGED <<landmarks, groups, activeGroupId, dotColor, brushSize, mode,
                   symmetryMap, importPending, canvasVars>>

\* variant of handleImageLoaded: a null result clears the point set and
\* resets the groups
handleImageLoadedClearOnNull(img) ==
    IF img.detect = "face"
    THEN [landmarks |-> Some(img.face),
          groups |-> <<DefaultGroup>>,
          activeGroupId |-> 1,
          symmetryMap |-> calculateSymmetryMap(img.face)]
    ELSE IF img.detect = "none"
    THEN [landmarks |-> NULL, groups |-> <<DefaultGroup>>,
          activeGroupId |-> 1, symmetryMap |-> symmetryMap]
    ELSE [landmarks |-> landmarks, groups |-> groups,
          activeGroupId |-> activeGroupId, symmetryMap |-> symmetryMap]

\* variant of handleImageLoaded: the groups are reset for the first point
\* set only
handleImageLoadedKeepGroups(img) ==
    IF img.detect = "face"
    THEN [landmarks |-> Some(img.face),
          groups |-> IF landmarks = NULL THEN <<DefaultGroup>> ELSE groups,
          activeGroupId |-> IF landmarks = NULL THEN 1 ELSE activeGroupId,
          symmetryMap |-> calculateSymmetryMap(img.face)]
    ELSE [landmarks |-> landmarks, groups |-> groups,
          activeGroupId |-> activeGroupId, symmetryMap |-> symmetryMap]

\* variant of handleImageLoaded: the symmetry map is computed for the first
\* point set only
handleImageLoadedKeepMap(img) ==
    IF img.detect = "face"
    THEN [landmarks |-> Some(img.face),
          groups |-> <<DefaultGroup>>,
          activeGroupId |-> 1,
          symmetryMap |-> IF landmarks = NULL THEN calculateSymmetryMap(img.face)
                          ELSE symmetryMap]
    ELSE [landmarks |-> landmarks, groups |-> groups,
          activeGroupId |-> activeGroupId, symmetryMap |-> symmetryMap]

\* handleImageLoaded: what it does to <<landmarks, groups, activeGroupId,
\* symmetryMap>>
handleImageLoaded(img) ==
    IF img.detect = "face"
    THEN [landmarks |-> Some(img.face),
          groups |-> <<DefaultGroup>>,
          activeGroupId |-> 1,
          symmetryMap |-> calculateSymmetryMap(img.face)]
    ELSE [landmarks |-> landmarks, groups |-> groups,
          activeGroupId |-> activeGroupId, symmetryMap |-> symmetryMap]

\* variant of imgOnload: the view is reset only when a face was detected
imgOnloadResetOnFace(img) ==
    /\ ~loading
    /\ imgElement' = Some(img)
    /\ LET r == handleImageLoaded(img)
       IN  /\ landmarks' = r.landmarks
           /\ groups' = r.groups
           /\ activeGroupId' = r.activeGroupId
           /\ symmetryMap' = r.symmetryMap
    /\ IF img.detect = "face"
       THEN scale' = I(1) /\ pan' = [x |-> I(0), y |-> I(0)]
       ELSE UNCHANGED <<scale, pan>>
    /\ viewOps' = 0
    /\ alerts' = 0
    /\ Hist([op |-> "imgOnload", img |-> img, scale |-> scale])
    /\ UNCHANGED <<loading, dotColor, brushSize, mode, importPending, isDragging,
                   isPanning, lastMousePos, hoveredIndex>>

\* img.onload of the load effect
imgOnload(img) ==
    /\ ~loading
    /\ imgElement' = Some(img)
    /\ LET r == handleImageLoaded(img)
       IN  /\ landmarks' = r.landmarks
           /\ groups' = r.groups
           /\ activeGroupId' = r.activeGroupId
           /\ symmetryMap' = r.symmetryMap
    /\ scale' = I(1)
    /\ pan' = [x |-> I(0), y |-> I(0)]
    /\ viewOps' = 0
    /\ alerts' = 0
    /\ Hist([op |-> "imgOnload", img |-> img, scale |-> scale])
    /\ UNCHANGED <<loading, dotColor, brushSize, mode, importPending, isDragging,
                   isPanning, lastMousePos, hoveredIndex>>

(***************************************************************************)
(* App: selection and group management handlers.                           *)
(***************************************************************************)
\* variant of ApplyIndices: every index is added, whatever the mode
RECURSIVE ApplyIndicesAddOnly(_, _, _, _, _)
ApplyIndicesAddOnly(nextIndices, changed, indices, k, currentMode) ==
    IF k > Len(indices) THEN [set |-> nextIndices, changed |-> changed]
    ELSE IF indices[k] \notin nextIndices
         THEN ApplyIndicesAddOnly(nextIndices \cup {indices[k]}, TRUE, indices, k + 1, currentMode)
         ELSE ApplyIndicesAddOnly(nextIndices, changed, indices, k + 1, currentMode)

\* the indices.forEach of handleSelectionChange, from position k on
RECURSIVE ApplyIndices(_, _, _, _, _)
ApplyIndices(nextIndices, changed, indices, k, currentMode) ==
    IF k > Len(indices) THEN [set |-> nextIndices, changed |-> changed]
    ELSE LET idx == indices[k]
         IN  IF currentMode = "add"
             THEN IF idx \notin nextIndices
                  THEN ApplyIndices(nextIndices \cup {idx}, TRUE, indices, k + 1, currentMode)
                  ELSE ApplyIndices(nextIndices, changed, indices, k + 1, currentMode)
             ELSE IF idx \in nextIndices
                  THEN ApplyIndices(nextIndices \ {idx}, TRUE, indices, k + 1, currentMode)
                  ELSE ApplyIndices(nextIndices, changed, indices, k + 1, currentMode)

\* handleSelectionChange: the new group list
handleSelectionChange(prevGroups, aid, indices, currentMode) ==
    [k \in 1 .. Len(prevGroups) |->
        LET g == prevGroups[k]
            r == ApplyIndices(g.indices, FALSE, indices, 1, currentMode)
        IN  IF g.id # aid THEN g
            ELSE IF r.changed THEN [g EXCEPT !.indices = r.set]
            ELSE g]

handleAddGroup(color) ==
    /\ Len(groups) < MaxGroups
    /\ LET newId == generateId(IdsInUse)
           newGroup == [id |-> newId,
                        name |-> "Group " \o ToString(Len(groups) + 1),
                        indices |-> {}, visible |-> TRUE, color |-> color]
       IN  /\ groups' = Append(groups, newGroup)
           /\ activeGroupId' = newId
    /\ alerts' = 0
    /\ Hist([op |-> "addGroup"])
    /\ UNCHANGED <<loading, landmarks, dotColor, brushSize, mode,
                   symmetryMap, importPending, canvasVars>>

\* variant of handleDeleteGroup: the last group can be deleted
handleDeleteGroupAny(id) ==
    /\ LET newGroups == FilterNotId(groups, id)
       IN  /\ groups' = newGroups
           /\ activeGroupId' = IF activeGroupId = id /\ newGroups # <<>>
                               THEN newGroups[1].id
                               ELSE activeGroupId
    /\ alerts' = 0
    /\ Hist([op |-> "deleteGroup", id |-> id, n |-> Len(groups), aid |-> activeGroupId])
    /\ UNCHANGED <<loading, landmarks, dotColor, brushSize, mode,
                   symmetryMap, importPending, canvasVars>>

\* variant of handleDeleteGroup: the active id is left as it is
handleDeleteGroupKeepActive(id) ==
    /\ IF Len(groups) <= 1
       THEN UNCHANGED <<groups, activeGroupId>>
       ELSE /\ groups' = FilterNotId(groups, id)
            /\ UNCHANGED activeGroupId
    /\ alerts' = 0
    /\ Hist([op |-> "deleteGroup", id |-> id, n |-> Len(groups), aid |-> activeGroupId])
    /\ UNCHANGED <<loading, landmarks, dotColor, brushSize, mode,
                   symmetryMap, importPending, canvasVars>>

\* The Sidebar disables the delete button while one group is left; the
\* handler has a guard of its own, and the model calls it in either case.
handleDeleteGroup(id) ==
    /\ IF Len(groups) <= 1
       THEN UNCHANGED <<groups, activeGroupId>>
       ELSE LET newGroups == FilterNotId(groups, id)
            IN  /\ groups' = newGroups
                /\ activeGroupId' = IF activeGroupId = id THEN newGroups[1].id
                                    ELSE activeGroupId
    /\ alerts' = 0
    /\ Hist([op |-> "deleteGroup", id |-> id, n |-> Len(groups), aid |-> activeGroupId])
    /\ UNCHANGED <<loading, landmarks, dotColor, brushSize, mode,
                   symmetryMap, importPending, canvasVars>>

\* onSetActiveGroup = setActiveGroupId, from a click on a group of the list
setActiveGroupId(id) ==
    /\ activeGroupId' = id
    /\ alerts' = 0
    /\ Hist([op |-> "setActive", id |-> id])
    /\ UNCHANGED <<loading, landmarks, groups, dotColor, brushSize,
                   mode, symmetryMap, importPending, canvasVars>>

handleRenameGroup(id, newName) ==
    /\ groups' = [k \in 1 .. Len(groups) |->
                    IF groups[k].id = id THEN [groups[k] EXCEPT !.name = newName]
                    ELSE groups[k]]
    /\ alerts' = 0
    /\ Hist([op |-> "rename", id |-> id])
    /\ UNCHANGED <<loading, landmarks, activeGroupId,
                   dotColor, brushSize, mode, symmetryMap, importPending, canvasVars>>

handleToggleGroupVisibility(id) ==
    /\ groups' = [k \in 1 .. Len(groups) |->
                    IF groups[k].id = id
                    THEN [groups[k] EXCEPT !.visible = ~groups[k].visible]
                    ELSE groups[k]]
    /\ alerts' = 0
    /\ Hist([op |-> "toggleVisibility", id |-> id])
    /\ UNCHANGED <<loading, landmarks, activeGroupId,
                   dotColor, brushSize, mode, symmetryMap, importPending, canvasVars>>

handleSetGroupColor(id, color) ==
    /\ groups' = [k \in 1 .. Len(groups) |->
                    IF groups[k].id = id THEN [groups[k] EXCEPT !.color = color]
                    ELSE groups[k]]
    /\ alerts' = 0
    /\ Hist([op |-> "setColor", id |-> id])
    /\ UNCHANGED <<loading, landmarks, activeGroupId,
                   dotColor, brushSize, mode, symmetryMap, importPending, canvasVars>>

\* variant of CopySpecularOf: an index the map does not define is mirrored
\* to index 0
CopySpecularOfFallback(indices) ==
    indices \cup {IF idx \in DOMAIN symmetryMap THEN symmetryMap[idx] ELSE 0 :
                     idx \in indices}

\* variant of CopySpecularOf: the mirror indices replace the set
CopySpecularOfReplace(indices) ==
    {symmetryMap[idx] : idx \in indices \cap DOMAIN symmetryMap}

\* next.add(symmetryMap[idx]) for every idx of g.indices the map defines
CopySpecularOf(indices) ==
    indices \cup {symmetryMap[idx] : idx \in indices \cap DOMAIN symmetryMap}

handleCopySpecular ==
    /\ groups' = [k \in 1 .. Len(groups) |->
                    IF groups[k].id # activeGroupId THEN groups[k]
                    ELSE [groups[k] EXCEPT !.indices = CopySpecularOf(groups[k].indices)]]
    /\ alerts' = 0
    /\ Hist([op |-> "copySpecular"])
    /\ UNCHANGED <<loading, landmarks, activeGroupId,
                   dotColor, brushSize, mode, symmetryMap, importPending, canvasVars>>

handleClear ==
    /\ groups' = [k \in 1 .. Len(groups) |->
                    IF groups[k].id # activeGroupId THEN groups[k]
                    ELSE [groups[k] EXCEPT !.indices = {}]]
    /\ alerts' = 0
    /\ Hist([op |-> "clear"])
    /\ UNCHANGED <<loading, landmarks, activeGroupId,
                   dotColor, brushSize, mode, symmetryMap, importPending, canvasVars>>

\* allIndices minus g.indices
InverseOf(indices) == {idx \in Indices(Val(landmarks)) : idx \notin indices}

handleInverseSelection ==
    /\ IF landmarks = NULL
       THEN groups' = groups
       ELSE groups' = [k \in 1 .. Len(groups) |->
                        IF groups[k].id # activeGroupId THEN groups[k]
                        ELSE [groups[k] EXCEPT !.indices = InverseOf(groups[k].indices)]]
    /\ alerts' = 0
    /\ Hist([op |-> "inverse"])
    /\ UNCHANGED <<loading, landmarks, activeGroupId,
                   dotColor, brushSize, mode, symmetryMap, importPending, canvasVars>>

setMode(m) ==
    /\ mode' = m
    /\ alerts' = 0
    /\ Hist([op |-> "setMode"])
    /\ UNCHANGED <<loading, landmarks, groups, activeGroupId,
                   dotColor, brushSize, symmetryMap, importPending, canvasVars>>

setBrushSize(size) ==
    /\ brushSize' = size
    /\ alerts' = 0
    /\ Hist([op |-> "setBrushSize"])
    /\ UNCHANGED <<loading, landmarks, groups, activeGroupId, dotColor,
                   mode, symmetryMap, importPending, canvasVars>>

\* setDotColor of the Sidebar's two dot-colour buttons
setDotColor(color) ==
    /\ dotColor' = color
    /\ alerts' = 0
    /\ Hist([op |-> "setDotColor"])
    /\ UNCHANGED <<loading, landmarks, groups, activeGroupId, brushSize,
                   mode, symmetryMap, importPending, canvasVars>>

(***************************************************************************)
(* App: JSON import.  A payload is what JSON.parse makes of the file text: *)
(* "unparseable" (it throws), or a value by kind; an object carries its    *)
(* Object.entries in order.                                                *)
(***************************************************************************)
Unparseable == [kind |-> "unparseable"]
JNumber == [kind |-> "number"]
JNull == [kind |-> "null"]
JArray(elems) == [kind |-> "array", elems |-> elems]
JObject(entries) == [kind |-> "object", entries |-> entries]
Entry(key, value) == [key |-> key, value |-> value]

\* An array element that is not an integer (a string, 1.5, a nested array):
\* the index sets of the model hold integers, so it is written as a value
\* that is no index and that no integer element of a payload equals.
NotInteger == -1

\* new Set(array)
SetOf(elems) == {elems[k] : k \in 1 .. Len(elems)}

\* the Object.entries(json).forEach of the object form, from entry k on:
\* acc = [newGroups, firstId, used].  The ids of the old groups go with the
\* old list, so the new ids need only differ from one another.
RECURSIVE ImportEntries(_, _, _, _)
ImportEntries(entries, k, cols, acc) ==
    IF k > Len(entries) THEN acc
    ELSE LET id == generateId(acc.used)
             firstId == IF k = 1 THEN id ELSE acc.firstId
             v == entries[k].value
             newGroups ==
                 IF v.kind = "array"
                 THEN Append(acc.newGroups,
                             [id |-> id, name |-> entries[k].key,
                              indices |-> SetOf(v.elems), visible |-> TRUE,
                              color |-> cols[k]])
                 ELSE acc.newGroups
         IN  ImportEntries(entries, k + 1, cols,
                           [newGroups |-> newGroups, firstId |-> firstId,
                            used |-> acc.used \cup {id}])

\* handleImportJSON up to input.click(): the callbacks close over this
\* render's activeGroupId.  One import is in flight at a time: a second file
\* dialog opened before the first file is read is not modelled.
handleImportJSON ==
    /\ importPending = NULL
    /\ importPending' = Some(activeGroupId)
    /\ alerts' = 0
    /\ Hist([op |-> "importStart"])
    /\ UNCHANGED <<loading, landmarks, groups, activeGroupId,
                   dotColor, brushSize, mode, symmetryMap, canvasVars>>

\* input.onchange without a file: if (!file) return
inputOnchangeNoFile ==
    /\ importPending # NULL
    /\ importPending' = NULL
    /\ alerts' = 0
    /\ Hist([op |-> "importNoFile"])
    /\ UNCHANGED <<loading, landmarks, groups, activeGroupId,
                   dotColor, brushSize, mode, symmetryMap, canvasVars>>

\* reader.onload with the parsed payload json; cols are the getRandomColor()
\* results, one per entry
readerOnload(json, cols) ==
    /\ importPending # NULL
    /\ importPending' = NULL
    /\ LET closureActiveGroupId == Val(importPending)
       IN  IF json.kind = "unparseable"
           THEN \* JSON.parse throws: catch
                /\ alerts' = 1
                /\ UNCHANGED <<groups, activeGroupId>>
           ELSE IF json.kind = "array"
           THEN \* legacy import
                /\ groups' = [i \in 1 .. Len(groups) |->
                                IF groups[i].id # closureActiveGroupId THEN groups[i]
                                ELSE [groups[i] EXCEPT !.indices = SetOf(json.elems)]]
                /\ alerts' = 0
                /\ UNCHANGED activeGroupId
           ELSE IF json.kind = "null"
           THEN \* typeof null === 'object'; Object.entries(null) throws: catch
                /\ alerts' = 1
                /\ UNCHANGED <<groups, activeGroupId>>
           ELSE IF json.kind = "object"
           THEN LET r == ImportEntries(json.entries, 1, cols,
                                       [newGroups |-> <<>>, firstId |-> 0,
                                        used |-> {}])
                IN  IF Len(r.newGroups) > 0
                    THEN /\ groups' = r.newGroups
                         /\ activeGroupId' = r.firstId
                         /\ alerts' = 0
                    ELSE /\ alerts' = 1
                         /\ UNCHANGED <<groups, activeGroupId>>
           ELSE \* number, string, boolean
                /\ alerts' = 1
                /\ UNCHANGED <<groups, activeGroupId>>
    /\ Hist([op |-> "import", json |-> json])
    /\ UNCHANGED <<loading, landmarks, dotColor, brushSize, mode, symmetryMap, canvasVars>>

(***************************************************************************)
(* App: export.  exportData is a JS object: a sequence of entries in       *)
(* property order, which is insertion order (no group name of the model is *)
(* an array-index string such as "7", which JS would move to the front).   *)
(***************************************************************************)
\* Array.from(indices).sort((a, b) => a - b)
RECURSIVE SortedArray(_)
SortedArray(indices) ==
    IF indices = {} THEN <<>>
    ELSE LET lo == CHOOSE a \in indices : \A b \in indices : a <= b
         IN  <<lo>> \o SortedArray(indices \ {lo})

\* exportData[name] = value: an existing property keeps its place and takes
\* the new value, a new one goes to the end
SetProperty(obj, name, value) ==
    IF \E k \in 1 .. Len(obj) : obj[k].key = name
    THEN [k \in 1 .. Len(obj) |->
            IF obj[k].key = name THEN Entry(name, value) ELSE obj[k]]
    ELSE Append(obj, Entry(name, value))

\* the groups.forEach of handleExport, from group k on
RECURSIVE ExportData(_, _, _)
ExportData(gs, k, exportData) ==
    IF k > Len(gs) THEN exportData
    ELSE ExportData(gs, k + 1,
                    SetProperty(exportData, gs[k].name, SortedArray(gs[k].indices)))

\* JSON.parse of the downloaded text JSON.stringify(exportData, null, 2)
ParsedFile(exportData) ==
    JObject([k \in 1 .. Len(exportData) |->
                Entry(exportData[k].key, JArray(exportData[k].value))])

handleExport ==
    /\ alerts' = 0
    /\ Hist([op |-> "export", data |-> ExportData(groups, 1, <<>>)])
    /\ UNCHANGED <<loading, landmarks, groups, activeGroupId, dotColor, brushSize, mode,
                   symmetryMap, importPending, canvasVars>>

\* how many groups an object payload makes
RECURSIVE ArrayEntries(_)
ArrayEntries(entries) ==
    IF entries = <<>> THEN 0
    ELSE (IF Head(entries).value.kind = "array" THEN 1 ELSE 0) + ArrayEntries(Tail(entries))

EntriesOf(json) == IF json.kind = "object" THEN json.entries ELSE <<>>

(***************************************************************************)
(* CanvasArea: coordinate transforms, brush selection, pointer and wheel   *)
(* handlers.                                                               *)
(***************************************************************************)
MinScale == Rat(1, 10)
MaxScale == 20
HoverThreshold == 5

screenToWorld(sx, sy) ==
    [x |-> RDiv(RSub(sx, pan.x), scale), y |-> RDiv(RSub(sy, pan.y), scale)]

\* variant of worldToScreen: scale applied before the translation
worldToScreenScaleFirst(wx, wy) ==
    [x |-> RMul(RAdd(wx, pan.x), scale), y |-> RMul(RAdd(wy, pan.y), scale)]

\* the render transform of draw: ctx.translate(pan.x, pan.y); ctx.scale(scale, scale)
worldToScreen(wx, wy) ==
    [x |-> RAdd(RMul(wx, scale), pan.x), y |-> RAdd(RMul(wy, scale), pan.y)]

\* lx, ly of landmark i on image img
WorldOf(lm, img, i) ==
    [x |-> RMul(At(lm, i).x, I(img.w)), y |-> RMul(At(lm, i).y, I(img.h))]

DistSq2(p, w) == RAdd(RSq(RSub(p.x, w.x)), RSq(RSub(p.y, w.y)))

\* variant of InsideBrush: points at exactly the radius are inside
InsideBrushInclusive(distSq, worldRadiusSq) == RLe(distSq, worldRadiusSq)

\* strict comparison of performSelection: distSq < worldRadiusSq
InsideBrush(distSq, worldRadiusSq) == RLt(distSq, worldRadiusSq)

\* the landmarks.forEach of performSelection for the indices lo .. hi - 1:
\* the indices pushed, in index order.  The range is walked as its lower
\* half and its upper half, which keeps the nesting of the evaluation low.
RECURSIVE IndicesToUpdateIn(_, _, _, _, _, _)
IndicesToUpdateIn(lm, img, worldPos, worldRadiusSq, lo, hi) ==
    IF lo >= hi THEN <<>>
    ELSE IF hi = lo + 1
    THEN IF InsideBrush(DistSq2(WorldOf(lm, img, lo), worldPos), worldRadiusSq)
         THEN <<lo>> ELSE <<>>
    ELSE LET mid == (lo + hi) \div 2
         IN  IndicesToUpdateIn(lm, img, worldPos, worldRadiusSq, lo, mid)
             \o IndicesToUpdateIn(lm, img, worldPos, worldRadiusSq, mid, hi)

\* the landmarks.forEach of performSelection, from index i on
IndicesToUpdate(lm, img, worldPos, worldRadiusSq, i) ==
    IndicesToUpdateIn(lm, img, worldPos, worldRadiusSq, i, Len(lm))

\* variant of performSelectionOn: onSelectionChange is called with an empty
\* indicesToUpdate too
performSelectionAlways(gs, m, screenX, screenY) ==
    IF landmarks = NULL \/ imgElement = NULL
    THEN [emitted |-> FALSE, groups |-> gs]
    ELSE LET worldPos == screenToWorld(I(screenX), I(screenY))
             worldRadiusSq == RSq(RDiv(I(brushSize), scale))
             indicesToUpdate == IndicesToUpdate(Val(landmarks), Val(imgElement),
                                                worldPos, worldRadiusSq, 0)
         IN  [emitted |-> TRUE,
              groups |-> handleSelectionChange(gs, activeGroupId, indicesToUpdate, m)]

\* performSelection with the mode prop m, on the group list gs the updater
\* of setGroups receives: whether onSelectionChange is called, and the group
\* list after the sample
performSelectionOn(gs, m, screenX, screenY) ==
    IF landmarks = NULL \/ imgElement = NULL
    THEN [emitted |-> FALSE, groups |-> gs]
    ELSE LET worldPos == screenToWorld(I(screenX), I(screenY))
             worldRadiusSq == RSq(RDiv(I(brushSize), scale))
             indicesToUpdate == IndicesToUpdate(Val(landmarks), Val(imgElement),
                                                worldPos, worldRadiusSq, 0)
         IN  IF Len(indicesToUpdate) > 0
             THEN [emitted |-> TRUE,
                   groups |-> handleSelectionChange(gs, activeGroupId, indicesToUpdate, m)]
             ELSE [emitted |-> FALSE, groups |-> gs]

\* performSelection of this render: the sample on the current group list
performSelection(screenX, screenY) == performSelectionOn(groups, mode, screenX, screenY)

\* the hover loop of handlePointerMove, from index i on: found is -1 or an index
RECURSIVE FoundHover(_, _, _, _, _)
FoundHover(lm, img, worldPos, i, found) ==
    IF i >= Len(lm) THEN found
    ELSE IF RLt(DistSq2(WorldOf(lm, img, i), worldPos), RSq(RDiv(I(HoverThreshold), scale)))
         THEN FoundHover(lm, img, worldPos, i + 1, i)
         ELSE FoundHover(lm, img, worldPos, i + 1, found)

\* variant of handlePointerDown: Shift with the left button brushes; only
\* the middle and the right button pan
handlePointerDownShiftBrushes(pos, button, shiftKey) ==
    /\ lastMousePos' = pos
    /\ IF button = 1 \/ button = 2
       THEN /\ isPanning' = TRUE
            /\ Hist([op |-> "pointerDown", pos |-> pos, button |-> button,
                     shiftKey |-> shiftKey, emitted |-> FALSE])
            /\ UNCHANGED <<isDragging, groups>>
       ELSE IF button = 0
       THEN /\ isDragging' = TRUE
            /\ groups' = performSelection(pos[1], pos[2]).groups
            /\ Hist([op |-> "pointerDown", pos |-> pos, button |-> button,
                     shiftKey |-> shiftKey,
                     emitted |-> performSelection(pos[1], pos[2]).emitted])
            /\ UNCHANGED isPanning
       ELSE /\ Hist([op |-> "pointerDown", pos |-> pos, button |-> button,
                     shiftKey |-> shiftKey, emitted |-> FALSE])
            /\ UNCHANGED <<isPanning, isDragging, groups>>
    /\ alerts' = 0
    /\ UNCHANGED <<loading, landmarks, activeGroupId, dotColor, brushSize,
                   mode, symmetryMap, importPending, imgElement, scale, pan,
                   hoveredIndex, viewOps>>

handlePointerDown(pos, button, shiftKey) ==
    /\ lastMousePos' = pos
    /\ IF button = 1 \/ button = 2 \/ shiftKey
       THEN /\ isPanning' = TRUE
            /\ Hist([op |-> "pointerDown", pos |-> pos, button |-> button,
                     shiftKey |-> shiftKey, emitted |-> FALSE])
            /\ UNCHANGED <<isDragging, groups>>
       ELSE IF button = 0
       THEN /\ isDragging' = TRUE
            /\ groups' = performSelection(pos[1], pos[2]).groups
            /\ Hist([op |-> "pointerDown", pos |-> pos, button |-> button,
                     shiftKey |-> shiftKey,
                     emitted |-> performSelection(pos[1], pos[2]).emitted])
            /\ UNCHANGED isPanning
       ELSE /\ Hist([op |-> "pointerDown", pos |-> pos, button |-> button,
                     shiftKey |-> shiftKey, emitted |-> FALSE])
            /\ UNCHANGED <<isPanning, isDragging, groups>>
    /\ alerts' = 0
    /\ UNCHANGED <<loading, landmarks, activeGroupId, dotColor, brushSize,
                   mode, symmetryMap, importPending, imgElement, scale, pan, hoveredIndex, viewOps>>

\* variant of panUpdater: pan is kept non-negative
panUpdaterClamped(prev, dx, dy) ==
    [x |-> RMax(I(0), RAdd(prev.x, I(dx))), y |-> RMax(I(0), RAdd(prev.y, I(dy)))]

\* the updater of setPan: prev => ({ x: prev.x + dx, y: prev.y + dy })
panUpdater(prev, dx, dy) == [x |-> RAdd(prev.x, I(dx)), y |-> RAdd(prev.y, I(dy))]

handlePointerMove(pos) ==
    /\ lastMousePos' = pos
    /\ LET dx == pos[1] - lastMousePos[1]
           dy == pos[2] - lastMousePos[2]
       IN  IF isPanning
           THEN /\ viewOps < MaxViewOps
                /\ pan' = panUpdater(pan, dx, dy)
                /\ viewOps' = viewOps + 1
                /\ Hist([op |-> "pointerMove", pos |-> pos, emitted |-> FALSE])
                /\ UNCHANGED <<groups, hoveredIndex>>
           ELSE /\ groups' = IF isDragging THEN performSelection(pos[1], pos[2]).groups
                             ELSE groups
                /\ Hist([op |-> "pointerMove", pos |-> pos,
                         emitted |-> isDragging /\ performSelection(pos[1], pos[2]).emitted])
                /\ IF imgElement # NULL /\ landmarks # NULL
                   THEN LET worldPos == screenToWorld(I(pos[1]), I(pos[2]))
                            foundHover == FoundHover(Val(landmarks), Val(imgElement),
                                                     worldPos, 0, -1)
                        IN  hoveredIndex' = IF foundHover # -1 THEN Some(foundHover)
                                            ELSE NULL
                   ELSE UNCHANGED hoveredIndex
                /\ UNCHANGED <<pan, viewOps>>
    /\ alerts' = 0
    /\ UNCHANGED <<loading, landmarks, activeGroupId, dotColor, brushSize,
                   mode, symmetryMap, importPending, imgElement, scale, isDragging,
                   isPanning>>

\* variant of handlePointerUp: isPanning is left as it is
handlePointerUpKeepPanning ==
    /\ isDragging' = FALSE
    /\ alerts' = 0
    /\ Hist([op |-> "pointerUp"])
    /\ UNCHANGED <<loading, landmarks, groups, activeGroupId, isPanning,
                   dotColor, brushSize, mode, symmetryMap, importPending,
                   imgElement, scale, pan, lastMousePos, hoveredIndex, viewOps>>

handlePointerUp ==
    /\ isDragging' = FALSE
    /\ isPanning' = FALSE
    /\ alerts' = 0
    /\ Hist([op |-> "pointerUp"])
    /\ UNCHANGED <<loading, landmarks, groups, activeGroupId,
                   dotColor, brushSize, mode, symmetryMap, importPending, imgElement, scale, pan, lastMousePos, hoveredIndex, viewOps>>

onPointerLeave ==
    /\ isDragging' = FALSE
    /\ isPanning' = FALSE
    /\ hoveredIndex' = NULL
    /\ alerts' = 0
    /\ Hist([op |-> "pointerLeave"])
    /\ UNCHANGED <<loading, landmarks, groups, activeGroupId,
                   dotColor, brushSize, mode, symmetryMap, importPending, imgElement, scale,
                   pan, lastMousePos, viewOps>>

\* variant of newScale: no upper clamp
newScaleNoMax(zoomFactor) == RMax(MinScale, RMul(scale, zoomFactor))

\* variant of newPan: the ratio is taken to be the new scale
newPanByNewScale(mouse, panCoord, ns) ==
    RSub(mouse, RMul(RSub(mouse, panCoord), ns))

\* Math.max(0.1, Math.min(20, scale * zoomFactor))
newScale(zoomFactor) == RMax(MinScale, RMin(I(MaxScale), RMul(scale, zoomFactor)))

\* mouse - (mouse - pan) * (newScale / scale), for one coordinate
newPan(mouse, panCoord, ns) ==
    RSub(mouse, RMul(RSub(mouse, panCoord), RDiv(ns, scale)))

handleWheel(pos, zoomFactor) ==
    /\ viewOps < MaxViewOps
    /\ LET mouseX == I(pos[1])
           mouseY == I(pos[2])
           ns == newScale(zoomFactor)
           newPanX == newPan(mouseX, pan.x, ns)
           newPanY == newPan(mouseY, pan.y, ns)
       IN  /\ scale' = ns
           /\ pan' = [x |-> newPanX, y |-> newPanY]
    /\ viewOps' = viewOps + 1
    /\ alerts' = 0
    /\ Hist([op |-> "wheel", pos |-> pos, zoomFactor |-> zoomFactor, scale |-> scale])
    /\ UNCHANGED <<loading, landmarks, groups, activeGroupId,
                   dotColor, brushSize, mode, symmetryMap, importPending, imgElement,
                   isDragging, isPanning, lastMousePos, hoveredIndex>>

(***************************************************************************)
(* CanvasArea: draw.  The draw effect runs after every render in which one *)
(* of its inputs changed, so what the canvas shows of the landmarks is a   *)
(* function of the current state.                                          *)
(***************************************************************************)
\* groups.find(g => g.id === activeGroupId)
activeGroup == Find(groups, activeGroupId)

\* groups.filter(g => g.visible && g.id !== activeGroupId)
RECURSIVE FilterVisibleOthers(_)
FilterVisibleOthers(gs) ==
    IF gs = <<>> THEN <<>>
    ELSE IF Head(gs).visible /\ Head(gs).id # activeGroupId
         THEN <<Head(gs)>> \o FilterVisibleOthers(Tail(gs))
         ELSE FilterVisibleOthers(Tail(gs))

\* variant of visibleGroups: the active group comes first
visibleGroupsActiveFirst ==
    IF activeGroup # NULL /\ Val(activeGroup).visible
    THEN <<Val(activeGroup)>> \o FilterVisibleOthers(groups)
    ELSE FilterVisibleOthers(groups)

\* visibleGroups after the push of the visible active group
visibleGroups ==
    IF activeGroup # NULL /\ Val(activeGroup).visible
    THEN Append(FilterVisibleOthers(groups), Val(activeGroup))
    ELSE FilterVisibleOthers(groups)

\* the style object set for the indices of group g
StyleOf(g) ==
    [color |-> g.color,
     radius |-> RDiv(I(4), scale),
     stroke |-> IF g.id = activeGroupId THEN "#fff" ELSE "rgba(255,255,255,0.5)"]

\* variant of SetAll: an index that has a style keeps it
SetAllKeepFirst(styles, g) ==
    [idx \in DOMAIN styles \cup g.indices |->
        IF idx \in DOMAIN styles THEN styles[idx] ELSE StyleOf(g)]

\* g.indices.forEach(idx => pointStyles.set(idx, {...})) on the Map styles
SetAll(styles, g) ==
    [idx \in DOMAIN styles \cup g.indices |->
        IF idx \in g.indices THEN StyleOf(g) ELSE styles[idx]]

\* visibleGroups.forEach from group k of vg on, started with the Map styles
RECURSIVE StylesFrom(_, _, _)
StylesFrom(styles, vg, k) ==
    IF k > Len(vg) THEN styles
    ELSE StylesFrom(SetAll(styles, vg[k]), vg, k + 1)

\* pointStyles after the forEach
pointStyles == StylesFrom(<< >>, visibleGroups, 1)

\* what the landmark loop draws for landmark index: the arc and the
\* context's fillStyle, strokeStyle and lineWidth at fill() and stroke()
DrawnPoint(index) ==
    LET w == WorldOf(Val(landmarks), Val(imgElement), index)
        lineWidth == RDiv(I(1), scale)
    IN  IF index \in DOMAIN pointStyles
        THEN [x |-> w.x, y |-> w.y,
              radius |-> pointStyles[index].radius,
              fillStyle |-> pointStyles[index].color,
              strokeStyle |-> pointStyles[index].stroke,
              lineWidth |-> lineWidth]
        ELSE [x |-> w.x, y |-> w.y,
              radius |-> RDiv(I(2), scale),
              fillStyle |-> IF dotColor = "white" THEN "rgba(255, 255, 255, 0.5)"
                            ELSE "rgba(0, 0, 0, 0.5)",
              strokeStyle |-> IF dotColor = "white" THEN "rgba(0,0,0,0.3)"
                              ELSE "rgba(255,255,255,0.3)",
              lineWidth |-> RMul(lineWidth, Rat(1, 2))]

\* the landmarks draw() puts on the canvas: nothing without an image or
\* without landmarks
DrawnLandmarks ==
    IF imgElement = NULL \/ landmarks = NULL THEN << >>
    ELSE [index \in Indices(Val(landmarks)) |-> DrawnPoint(index)]

(***************************************************************************)
(* Specifications.  Each takes the handlers of one part of the program,    *)
(* with the inputs that part is driven by.                                 *)
(***************************************************************************)
\* object payloads the bound on the group list admits
FitsGroups(json) == ArrayEntries(EntriesOf(json)) <= MaxGroups

\* Spec: the App's group state under the sidebar's group and selection
\* actions, the import, image loads and brush samples (left-button
\* pointer-down at the view as loaded)
Payloads ==
    { JArray(<<0, 2>>), JArray(<<1, 999>>), Unparseable,
      JObject(<<Entry("a", JArray(<<0>>)), Entry("b", JArray(<<0, 2>>))>>),
      JObject(<<Entry("a", JNumber), Entry("b", JArray(<<0>>))>>) }

Next ==
    \/ InitFaceMeshDone
    \/ \E img \in {TestImage, BlankImage} : imgOnload(img)
    \/ handleAddGroup("#bb86fc")
    \/ \E id \in GroupIds(groups) : handleDeleteGroup(id)
    \/ \E id \in GroupIds(groups) : setActiveGroupId(id)
    \/ handleCopySpecular
    \/ handleClear
    \/ handleInverseSelection
    \/ handleImportJSON
    \/ inputOnchangeNoFile
    \/ \E json \in {p \in Payloads : FitsGroups(p)} :
         readerOnload(json, [k \in 1 .. Len(EntriesOf(json)) |-> "#bb86fc"])
    \/ handlePointerDown(<<0, 0>>, 0, FALSE)

Spec == Init /\ [][Next]_vars

\* SpecList: the group list and the active id under add, delete, select,
\* import, image load and brush samples
ListPayloads ==
    { JArray(<<0, 2>>),
      JObject(<<Entry("a", JArray(<<0>>)), Entry("b", JArray(<<0, 2>>))>>),
      JObject(<<Entry("a", JNumber), Entry("b", JArray(<<0>>))>>) }

NextList ==
    \/ InitFaceMeshDone
    \/ imgOnload(TestImage)
    \/ handleAddGroup("#03dac6")
    \/ \E id \in GroupIds(groups) : handleDeleteGroup(id)
    \/ \E id \in GroupIds(groups) : setActiveGroupId(id)
    \/ handleImportJSON
    \/ \E json \in {p \in ListPayloads : FitsGroups(p)} :
         readerOnload(json, [k \in 1 .. Len(EntriesOf(json)) |-> "#bb86fc"])
    \/ handlePointerDown(<<0, 0>>, 0, FALSE)

SpecList == Init /\ [][NextList]_vars

\* SpecView: the view transform under wheel zoom, middle-button pan
\* gestures and image loads
NextView ==
    \/ InitFaceMeshDone
    \/ \E img \in {TestImage, BlankImage} : imgOnload(img)
    \/ \E pos \in ScreenPts : handlePointerDown(pos, 1, FALSE)
    \/ \E pos \in ScreenPts : handlePointerMove(pos)
    \/ handlePointerUp
    \/ \E pos \in ScreenPts, zoomFactor \in ZoomFactors : handleWheel(pos, zoomFactor)

SpecView == Init /\ [][NextView]_vars

\* SpecGesture: pointer gestures (brush drag, pan drag, release, leave) on
\* the view as loaded
NextGesture ==
    \/ InitFaceMeshDone
    \/ \E img \in {TestImage, BlankImage} : imgOnload(img)
    \/ \E m \in Modes : setMode(m)
    \/ \E pos \in ScreenPts, button \in {0, 1, 2}, shiftKey \in BOOLEAN :
         handlePointerDown(pos, button, shiftKey)
    \/ \E pos \in ScreenPts : handlePointerMove(pos)
    \/ handlePointerUp
    \/ onPointerLeave

SpecGesture == Init /\ [][NextGesture]_vars

\* SpecBrush: brush samples (left-button pointer-down) in both modes, at
\* zoomed views, on any group of the list
BrushZoomFactors == { Rat(2, 1), Rat(1, 2) }

NextBrush ==
    \/ InitFaceMeshDone
    \/ imgOnload(TestImage)
    \/ handleAddGroup("#03dac6")
    \/ \E id \in GroupIds(groups) : setActiveGroupId(id)
    \/ \E m \in Modes : setMode(m)
    \/ \E pos \in ScreenPts : handlePointerDown(pos, 0, FALSE)
    \/ \E zoomFactor \in BrushZoomFactors : handleWheel(<<0, 0>>, zoomFactor)

SpecBrush == Init /\ [][NextBrush]_vars

\* SpecFile: export and import of group files, next to add, delete, select,
\* image load and brush samples
FilePayloads ==
    { JArray(<<0, 2>>), JArray(<<0, NotInteger>>), Unparseable, JNull, JNumber,
      JObject(<<Entry("a", JNumber)>>),
      JObject(<<Entry("a", JArray(<<0>>)), Entry("b", JArray(<<0, 2>>))>>),
      JObject(<<Entry("a", JNumber), Entry("b", JArray(<<0>>))>>) }

NextFile ==
    \/ InitFaceMeshDone
    \/ imgOnload(TestImage)
    \/ handleAddGroup("#03dac6")
    \/ \E id \in GroupIds(groups) : handleDeleteGroup(id)
    \/ \E id \in GroupIds(groups) : setActiveGroupId(id)
    \/ handleExport
    \/ handleImportJSON
    \/ \E json \in {p \in FilePayloads : FitsGroups(p)} :
         readerOnload(json, [k \in 1 .. Len(EntriesOf(json)) |-> "#bb86fc"])
    \/ handlePointerDown(<<0, 0>>, 0, FALSE)

SpecFile == Init /\ [][NextFile]_vars

\* SpecMirror: the symmetry map of four point sets (3 points, 11 points,
\* 169 points with the whole midline, 169 points with a midline on one
\* line), then brush samples, groups, copy to the mirror side and clear; a
\* 169-point image is the image the page starts with, and the user acts
\* once an image is shown
MirrorImages == {TestImage, PartialImage}

NextMirror ==
    \/ InitFaceMeshDone
    \/ \E img \in MirrorImages : imgOnload(img)
    \/ imgElement = NULL /\ \E img \in {FullImage, FlatImage} : imgOnload(img)
    \/ imgElement # NULL /\ \E m \in Modes : setMode(m)
    \/ imgElement # NULL /\ \E pos \in ScreenPts : handlePointerDown(pos, 0, FALSE)
    \/ imgElement # NULL /\ handleAddGroup("#03dac6")
    \/ imgElement # NULL /\ \E id \in GroupIds(groups) : setActiveGroupId(id)
    \/ imgElement # NULL /\ handleCopySpecular
    \/ imgElement # NULL /\ handleClear

SpecMirror == Init /\ [][NextMirror]_vars

\* SpecDraw: the style table of draw under an import of three groups that
\* share indices, selection of the active group, visibility toggles, the
\* dot colour, brush samples and wheel zoom
DrawPayload ==
    JObject(<<Entry("a", JArray(<<0, 1>>)), Entry("b", JArray(<<0, 1, 2>>)),
              Entry("c", JArray(<<0>>))>>)

DrawColors == <<"#03dac6", "#cf6679", "#ffb74d">>

NextDraw ==
    \/ InitFaceMeshDone
    \/ imgOnload(TestImage)
    \/ handleImportJSON
    \/ readerOnload(DrawPayload, DrawColors)
    \/ \E id \in GroupIds(groups) : setActiveGroupId(id)
    \/ \E id \in GroupIds(groups) : handleToggleGroupVisibility(id)
    \/ \E color \in DotColors : setDotColor(color)
    \/ handlePointerDown(<<10, 10>>, 0, FALSE)
    \/ handleWheel(<<0, 0>>, Rat(2, 1))

SpecDraw == Init /\ [][NextDraw]_vars

\* SpecLoad: image loads with every outcome of the detection (a point set
\* of 3 points, of 169 points, no face, an exception), with groups, brush
\* samples and copy to the mirror side in between; the 169-point image is
\* the image the page starts with, and the user acts once an image is shown
NextLoad ==
    \/ InitFaceMeshDone
    \/ \E img \in Images : imgOnload(img)
    \/ imgElement = NULL /\ imgOnload(FullImage)
    \/ imgElement # NULL /\ handleAddGroup("#03dac6")
    \/ imgElement # NULL /\ \E id \in GroupIds(groups) : setActiveGroupId(id)
    \/ imgElement # NULL /\ handlePointerDown(<<0, 0>>, 0, FALSE)
    \/ imgElement # NULL /\ handleCopySpecular

SpecLoad == Init /\ [][NextLoad]_vars

\* SpecHover: the hover check of pointer moves on a 3-point and an 11-point
\* set, at the view as loaded and zoomed, with brush drags and leave
NextHover ==
    \/ InitFaceMeshDone
    \/ \E img \in {TestImage, PartialImage} : imgOnload(img)
    \/ \E pos \in ScreenPts : handlePointerDown(pos, 0, FALSE)
    \/ \E pos \in ScreenPts : handlePointerMove(pos)
    \/ handlePointerUp
    \/ onPointerLeave
    \/ \E zoomFactor \in BrushZoomFactors : handleWheel(<<0, 0>>, zoomFactor)

SpecHover == Init /\ [][NextHover]_vars

(***************************************************************************)
(* Properties.                                                             *)
(***************************************************************************)
\* the indices of the current point set (none before the first detection)
PointIndices == IF landmarks = NULL THEN {} ELSE Indices(Val(landmarks))

Origin == [x |-> I(0), y |-> I(0)]

\* C1: in every reachable state activeGroupId is the id of exactly one
\* group of the list.
C1_ActiveGroupInList ==
    Cardinality({k \in 1 .. Len(groups) : groups[k].id = activeGroupId}) = 1

\* C2: once there is a point set of N points, every index of every group's
\* index set is in 0 .. N-1.
C2_IndicesInRange ==
    landmarks # NULL =>
        \A k \in 1 .. Len(groups) : groups[k].indices \subseteq PointIndices

\* C3: the group list is never empty, and a delete request made when exactly
\* one group remains leaves the list and activeGroupId as they are.
C3_NeverEmptyLastDeleteNoOp ==
    /\ [](Len(groups) >= 1)
    /\ [][(last'.op = "deleteGroup" /\ Len(groups) = 1)
            => (groups' = groups /\ activeGroupId' = activeGroupId)]_vars

\* a delete request for the only group has been handled
C3_Witness ==
    /\ last.op = "deleteGroup"
    /\ last.n = 1
    /\ Len(groups) = 1
    /\ groups[1].id = last.id
    /\ activeGroupId = last.aid

\* C4: with two or more groups, a delete of group id removes exactly that
\* group and leaves every other group as it was, in order; if id was active
\* a remaining group becomes active, otherwise activeGroupId is unchanged.
C4_DeleteRemovesExactlyOne ==
    [][(last'.op = "deleteGroup" /\ Len(groups) >= 2 /\ last'.id \in GroupIds(groups))
        => LET id == last'.id
               kept == {k \in 1 .. Len(groups) : groups[k].id # id}
           IN  /\ Len(groups') = Cardinality(kept)
               /\ Cardinality(kept) = Len(groups) - 1
               /\ \A k \in kept :
                    groups'[Cardinality({j \in kept : j <= k})] = groups[k]
               /\ IF activeGroupId = id
                  THEN activeGroupId' \in GroupIds(groups')
                  ELSE activeGroupId' = activeGroupId]_vars

\* the active one of two groups has been deleted, the other one holds indices
C4_Witness ==
    /\ last.op = "deleteGroup"
    /\ last.n = 2
    /\ last.aid = last.id
    /\ Len(groups) = 1
    /\ groups[1].id # last.id
    /\ groups[1].indices # {}
    /\ activeGroupId = groups[1].id

\* C5: scale stays within [0.1, 20]; a wheel zoom whose scale * zoomFactor is
\* below 0.1 sets scale to 0.1, one whose scale * zoomFactor is above 20 sets
\* it to 20.
C5_ScaleClamped ==
    /\ [](RLe(MinScale, scale) /\ RLe(scale, I(MaxScale)))
    /\ [][last'.op = "wheel"
            => LET unclamped == RMul(scale, last'.zoomFactor)
               IN  /\ RLt(unclamped, MinScale) => scale' = MinScale
                   /\ RLt(I(MaxScale), unclamped) => scale' = I(MaxScale)]_vars

\* a zoom out whose unclamped result is below 0.1 has been handled
C5_Witness ==
    /\ last.op = "wheel"
    /\ RLt(RMul(last.scale, last.zoomFactor), MinScale)
    /\ scale = MinScale

\* C6: for every wheel zoom at s, clamped or not, the world point under s
\* before the zoom is under s after it, and pan' = s - (s - pan) * scale' / scale.
C6_ZoomKeepsAnchor ==
    [][last'.op = "wheel"
        => LET sx == I(last'.pos[1])
               sy == I(last'.pos[2])
               w == screenToWorld(sx, sy)
           IN  /\ RAdd(RMul(w.x, scale'), pan'.x) = sx
               /\ RAdd(RMul(w.y, scale'), pan'.y) = sy
               /\ pan'.x = RSub(sx, RDiv(RMul(RSub(sx, pan.x), scale'), scale))
               /\ pan'.y = RSub(sy, RDiv(RMul(RSub(sy, pan.y), scale'), scale))]_vars

\* a zoom in away from the origin, from a zoomed view, has hit the upper clamp
C6_Witness ==
    /\ last.op = "wheel"
    /\ last.pos = <<10, 10>>
    /\ last.scale # I(1)
    /\ RLt(I(MaxScale), RMul(last.scale, last.zoomFactor))
    /\ scale = I(MaxScale)
    /\ pan # Origin

\* points the transforms are compared on
ProbePts == { <<I(0), I(0)>>, <<I(30), I(30)>>, <<I(10), I(10)>>, <<Rat(-7, 3), Rat(1, 2)>> }

\* C7: screenToWorld and worldToScreen are inverses of each other at every
\* reachable scale and pan; with scale = 2 and pan = (10, 10),
\* screenToWorld(30, 30) = (10, 10) and worldToScreen(10, 10) = (30, 30).
C7_TransformsInverse ==
    /\ \A p \in ProbePts :
         LET w == screenToWorld(p[1], p[2])
             s == worldToScreen(p[1], p[2])
         IN  /\ worldToScreen(w.x, w.y) = [x |-> p[1], y |-> p[2]]
             /\ screenToWorld(s.x, s.y) = [x |-> p[1], y |-> p[2]]
    /\ (scale = I(2) /\ pan = [x |-> I(10), y |-> I(10)])
         => /\ screenToWorld(I(30), I(30)) = [x |-> I(10), y |-> I(10)]
            /\ worldToScreen(I(10), I(10)) = [x |-> I(30), y |-> I(30)]

\* the view of the example: scale 2, pan (10, 10)
C7_Witness == scale = I(2) /\ pan = [x |-> I(10), y |-> I(10)]

\* C8: while panning, a pointer move to pos adds pos - lastMousePos to pan,
\* whatever the result, and leaves scale and every group's index set alone.
C8_PanMoveAddsDelta ==
    [][(last'.op = "pointerMove" /\ isPanning)
        => /\ pan'.x = RAdd(pan.x, I(last'.pos[1] - lastMousePos[1]))
           /\ pan'.y = RAdd(pan.y, I(last'.pos[2] - lastMousePos[2]))
           /\ scale' = scale
           /\ Len(groups') = Len(groups)
           /\ \A k \in 1 .. Len(groups) :
                groups'[k].indices = groups[k].indices]_vars

\* a pan move has taken pan below zero while a group holds indices
C8_Witness ==
    /\ last.op = "pointerMove"
    /\ isPanning
    /\ RLt(pan.x, I(0))
    /\ RLt(pan.y, I(0))
    /\ \E k \in 1 .. Len(groups) : groups[k].indices # {}

\* C9: when an image has finished loading, scale = 1 and pan = (0, 0).
C9_LoadResetsView ==
    last.op = "imgOnload" => (scale = I(1) /\ pan = Origin)

\* an image without a face has finished loading on a zoomed view
C9_Witness ==
    /\ last.op = "imgOnload"
    /\ last.img.detect = "none"
    /\ last.scale # I(1)
    /\ scale = I(1)
    /\ pan = Origin

\* the points strictly inside the brush at screen point pos
Touched(pos) ==
    IF landmarks = NULL \/ imgElement = NULL THEN {}
    ELSE LET c == screenToWorld(I(pos[1]), I(pos[2]))
             r == RDiv(I(brushSize), scale)
         IN  {i \in PointIndices :
                LET w == WorldOf(Val(landmarks), Val(imgElement), i)
                    dx == RSub(w.x, c.x)
                    dy == RSub(w.y, c.y)
                IN  RLt(RAdd(RMul(dx, dx), RMul(dy, dy)), RMul(r, r))}

\* the points at exactly the brush radius from screen point pos
OnRadius(pos) ==
    IF landmarks = NULL \/ imgElement = NULL THEN {}
    ELSE LET c == screenToWorld(I(pos[1]), I(pos[2]))
             r == RDiv(I(brushSize), scale)
         IN  {i \in PointIndices :
                LET w == WorldOf(Val(landmarks), Val(imgElement), i)
                    dx == RSub(w.x, c.x)
                    dy == RSub(w.y, c.y)
                IN  RAdd(RMul(dx, dx), RMul(dy, dy)) = RMul(r, r)}

\* C10: a brush sample at pos turns the active group's set S into S \cup T in
\* add mode and S \ T in subtract mode, T the points strictly inside the
\* brush, and leaves every other group's set alone.
C10_BrushSample ==
    [][last'.op = "pointerDown"
        => LET T == Touched(last'.pos)
           IN  /\ Len(groups') = Len(groups)
               /\ \A k \in 1 .. Len(groups) :
                    groups'[k].indices =
                        IF groups[k].id # activeGroupId THEN groups[k].indices
                        ELSE IF mode = "add" THEN groups[k].indices \cup T
                        ELSE groups[k].indices \ T]_vars

\* a sample in subtract mode with a point at exactly the radius: the point
\* stays in the active group, the touched one is gone, and the other group
\* still holds its indices
C10_Witness ==
    /\ last.op = "pointerDown"
    /\ mode = "subtract"
    /\ Len(groups) = 2
    /\ Touched(last.pos) # {}
    /\ \E k \in 1 .. 2 :
         /\ groups[k].id = activeGroupId
         /\ OnRadius(last.pos) \cap groups[k].indices # {}
         /\ Touched(last.pos) \cap groups[k].indices = {}
         /\ Touched(last.pos) \cap groups[3 - k].indices # {}

\* C11: a brush sample that touches no point, or one taken without a point
\* set or an image, calls no onSelectionChange, leaves the group list as it
\* is and raises no alert.
C11_EmptySampleNoOp ==
    [][(last'.op = "pointerDown" /\ Touched(last'.pos) = {})
        => (~last'.emitted /\ groups' = groups /\ alerts' = 0)]_vars

\* a sample on a loaded, zoomed view has touched no point while the active
\* group holds indices
C11_Witness ==
    /\ last.op = "pointerDown"
    /\ landmarks # NULL /\ imgElement # NULL
    /\ Touched(last.pos) = {}
    /\ ~last.emitted
    /\ \E k \in 1 .. Len(groups) :
         groups[k].id = activeGroupId /\ groups[k].indices # {}

\* the group list after an add sample and then a subtract sample at pos, both
\* on the current point set, view and brush size
AddThenSubtract(pos) ==
    performSelectionOn(performSelectionOn(groups, "add", pos[1], pos[2]).groups,
                       "subtract", pos[1], pos[2]).groups

\* C12 (as stated): an add sample and then a subtract sample at the same
\* position, with point set, view and brush unchanged, give the active group
\* the index set S it had before the add.
C12_AddThenSubtractRestores ==
    \A pos \in ScreenPts :
        LET after == AddThenSubtract(pos)
        IN  \A k \in 1 .. Len(groups) : after[k].indices = groups[k].indices

\* C12 (amended): the two samples give the active group S \ T, T the points
\* the brush touches, which is S when S and T are disjoint; every other
\* group keeps its set.
C12_AddThenSubtractRemovesTouched ==
    \A pos \in ScreenPts :
        LET after == AddThenSubtract(pos)
            T == Touched(pos)
        IN  /\ Len(after) = Len(groups)
            /\ \A k \in 1 .. Len(groups) :
                 /\ after[k].indices =
                        IF groups[k].id = activeGroupId
                        THEN groups[k].indices \ T
                        ELSE groups[k].indices
                 /\ groups[k].indices \cap T = {}
                        => after[k].indices = groups[k].indices

\* an add sample has just put touched points into an active group that holds
\* other points too, next to a second group that holds indices
C12_Witness ==
    /\ last.op = "pointerDown"
    /\ last.emitted
    /\ mode = "add"
    /\ Len(groups) = 2
    /\ \E k \in 1 .. 2 :
         /\ groups[k].id = activeGroupId
         /\ Touched(last.pos) # {}
         /\ Touched(last.pos) \subseteq groups[k].indices
         /\ groups[k].indices \ Touched(last.pos) # {}
         /\ groups[3 - k].indices # {}

\* C13: with a point set loaded, inverse selection applied twice gives the
\* active group the index set S it held before, and leaves the other groups
\* alone: after one handleInverseSelection, the inverse of the new set is S.
C13_InverseTwiceRestores ==
    [][(last'.op = "inverse" /\ landmarks # NULL)
        => /\ Len(groups') = Len(groups)
           /\ \A k \in 1 .. Len(groups) :
                IF groups[k].id = activeGroupId
                THEN InverseOf(groups'[k].indices) = groups[k].indices
                ELSE groups'[k] = groups[k]]_vars

\* v is the set indices as an array in strictly ascending order
IsAscendingArrayOf(v, indices) ==
    /\ Len(v) = Cardinality(indices)
    /\ {v[i] : i \in 1 .. Len(v)} = indices
    /\ \A i \in 1 .. Len(v) : \A j \in 1 .. Len(v) : i < j => v[i] < v[j]

\* the group list an object-form import of the exported object exportData
\* makes
ImportOfExport(exportData) ==
    ImportEntries(ParsedFile(exportData).entries, 1,
                  [k \in 1 .. Len(exportData) |-> "#bb86fc"],
                  [newGroups |-> <<>>, firstId |-> 0, used |-> {}]).newGroups

\* C14: an import of the object just exported gives a group list with the
\* same number of groups, the same names in the same order and, group by
\* group, the same indices.
C14_ExportImportRoundTrip ==
    last.op = "export"
        => LET imported == ImportOfExport(last.data)
           IN  /\ Len(imported) = Len(groups)
               /\ \A k \in 1 .. Len(groups) :
                    k <= Len(imported)
                        => /\ imported[k].name = groups[k].name
                           /\ imported[k].indices = groups[k].indices

\* C15: the exported object holds, for every group g of the list, under key
\* g.name exactly g's indices as an array in strictly ascending order.
C15_ExportHoldsEveryGroup ==
    last.op = "export"
        => \A k \in 1 .. Len(groups) :
             \E e \in 1 .. Len(last.data) :
                /\ last.data[e].key = groups[k].name
                /\ IsAscendingArrayOf(last.data[e].value, groups[k].indices)

\* the entries of an object payload whose value is an array, in key order
RECURSIVE ValidEntries(_)
ValidEntries(entries) ==
    IF entries = <<>> THEN <<>>
    ELSE (IF Head(entries).value.kind = "array" THEN <<Head(entries)>> ELSE <<>>)
         \o ValidEntries(Tail(entries))

\* C16: an object-form import with at least one array-valued key replaces
\* the group list by one visible group per such key, in key order, each
\* with the array's elements as its index set, and makes the group of the
\* first such key the active one.
C16_ObjectImportReplacesGroups ==
    [][(last'.op = "import" /\ last'.json.kind = "object"
          /\ ValidEntries(last'.json.entries) # <<>>)
        => LET valid == ValidEntries(last'.json.entries)
           IN  /\ Len(groups') = Len(valid)
               /\ \A k \in 1 .. Len(valid) :
                    k <= Len(groups')
                        => /\ groups'[k].name = valid[k].key
                           /\ groups'[k].indices = SetOf(valid[k].value.elems)
                           /\ groups'[k].visible
               /\ activeGroupId' = groups'[1].id]_vars

\* a legacy payload: an array whose elements are all integers
IsFlatIntegerArray(json) ==
    /\ json.kind = "array"
    /\ \A k \in 1 .. Len(json.elems) : json.elems[k] # NotInteger

\* C17: a legacy flat-array import gives the group that is active when the
\* file has been read exactly the array's elements as its index set, and
\* leaves the number of groups, activeGroupId and every other group alone.
C17_LegacyImportReplacesActive ==
    [][(last'.op = "import" /\ IsFlatIntegerArray(last'.json))
        => /\ Len(groups') = Len(groups)
           /\ activeGroupId' = activeGroupId
           /\ \A k \in 1 .. Len(groups) :
                groups'[k] = IF groups[k].id = activeGroupId
                             THEN [groups[k] EXCEPT !.indices = SetOf(last'.json.elems)]
                             ELSE groups[k]]_vars

\* payloads the import has to refuse
IsMalformed(json) ==
    \/ json.kind \in {"unparseable", "number", "null"}
    \/ json.kind = "object" /\ ValidEntries(json.entries) = <<>>
    \/ json.kind = "array" /\ ~IsFlatIntegerArray(json)

\* C18: an import of a malformed or unsupported payload alerts the user and
\* leaves the group list and activeGroupId as they were; an import that
\* alerts has changed nothing.
C18_MalformedImportRefused ==
    [][last'.op = "import"
        => /\ IsMalformed(last'.json)
                => (alerts' = 1 /\ groups' = groups /\ activeGroupId' = activeGroupId)
           /\ alerts' = 1
                => (groups' = groups /\ activeGroupId' = activeGroupId)]_vars

\* the midline indices the point set lm lacks
MidlineMissing(lm) ==
    \E m \in {IdxForehead, IdxChin, IdxGlabella} : m \notin Indices(lm)

\* C19: while the point set lacks a midline point the symmetry map is the
\* empty map and the image load raised no alert, and a copy to the mirror
\* side then leaves the index set of every group as it was.
C19_MissingMidlineNoOp ==
    /\ [](landmarks # NULL /\ MidlineMissing(Val(landmarks))
            => symmetryMap = << >>)
    /\ [][(landmarks' # NULL /\ MidlineMissing(Val(landmarks'))
            /\ last'.op \in {"imgOnload", "copySpecular"})
           => /\ alerts' = 0
              /\ last'.op = "copySpecular"
                    => /\ Len(groups') = Len(groups)
                       /\ \A k \in 1 .. Len(groups) :
                             groups'[k].indices = groups[k].indices]_vars

\* copy to the mirror side was handled on the 11-point set, which has the
\* forehead point only, with a non-empty active group next to another group
C19_Witness ==
    /\ last.op = "copySpecular"
    /\ landmarks # NULL
    /\ MidlineMissing(Val(landmarks))
    /\ IdxForehead \in Indices(Val(landmarks))
    /\ Len(groups) > 1
    /\ \E k \in 1 .. Len(groups) :
          /\ groups[k].id = activeGroupId
          /\ groups[k].indices # {}

\* the symmetry plane of lm: the mean of the three midline points, and the
\* direction across it (not normalized)
SymmetryPlane(lm) ==
    LET p10 == At(lm, IdxForehead)
        p152 == At(lm, IdxChin)
        p168 == At(lm, IdxGlabella)
    IN  [point |-> [x |-> RDiv(RAdd(RAdd(p10.x, p152.x), p168.x), I(3)),
                    y |-> RDiv(RAdd(RAdd(p10.y, p152.y), p168.y), I(3)),
                    z |-> RDiv(RAdd(RAdd(p10.z, p152.z), p168.z), I(3))],
         across |-> cross(sub(p10, p152), sub(At(lm, IdxNoseTip), p152))]

\* the mirror image of p across plane; p itself when the plane has no
\* direction
MirrorOf(p, plane) ==
    LET n == plane.across
        nn == dot(n, n)
    IN  IF nn = I(0) THEN p
        ELSE sub(p, scaleVec(n, RDiv(RMul(I(2), dot(sub(p, plane.point), n)), nn)))

\* j is the lowest index of lm whose point is nearest to the mirror image
\* of point i
IsLowestNearest(lm, i, j) ==
    LET r == MirrorOf(At(lm, i), SymmetryPlane(lm))
        dj == DistSq3(At(lm, j), r)
    IN  \A k \in Indices(lm) :
          LET dk == DistSq3(At(lm, k), r)
          IN  /\ ~RLt(dk, dj)
              /\ k < j => RLt(dj, dk)

\* C20: while the point set has its midline points the symmetry map is
\* defined on every index of the point set, and the map an image load
\* computes sends every index i to the lowest index whose point is nearest
\* to the mirror image of point i, for points on the plane too.
C20_MapIsLowestNearest ==
    /\ [](landmarks # NULL /\ ~MidlineMissing(Val(landmarks))
            => DOMAIN symmetryMap = Indices(Val(landmarks)))
    /\ [][(last'.op = "imgOnload" /\ landmarks' # NULL
            /\ ~MidlineMissing(Val(landmarks')))
           => \A i \in Indices(Val(landmarks')) :
                /\ symmetryMap'[i] \in Indices(Val(landmarks'))
                /\ IsLowestNearest(Val(landmarks'), i, symmetryMap'[i])]_vars

\* the 169-point set is loaded: point 0 has two nearest mirror points, 2 and
\* 3, and is sent to 2; point 4 has no exact mirror point; point 6 lies on
\* the plane and is sent to the lower coinciding point 5
C20_Witness ==
    /\ landmarks # NULL
    /\ ~MidlineMissing(Val(landmarks))
    /\ At(Val(landmarks), 2) = At(Val(landmarks), 3)
    /\ symmetryMap[0] = 2
    /\ symmetryMap[4] = 2
    /\ symmetryMap[6] = 5

\* C21: the reflection an image load applies, with the plane point and the
\* plane normal the mapper computes from the point set, returns every point
\* of the set to itself when applied twice; so it does when the normal is
\* the zero vector.
C21_ReflectionInvolution ==
    [][(last'.op = "imgOnload" /\ landmarks' # NULL
        /\ ~MidlineMissing(Val(landmarks')))
       => LET lm == Val(landmarks')
              P0 == PlanePoint(lm)
              n == PlaneNormal(lm)
          IN  \A i \in Indices(lm) :
                Reflection(Reflection(At(lm, i), P0, n), P0, n) = At(lm, i)]_vars

\* a 169-point set is loaded whose plane has a direction, and the
\* reflection moves point 0 to where point 2 is
C21_Witness ==
    /\ last.op = "imgOnload"
    /\ landmarks # NULL
    /\ ~MidlineMissing(Val(landmarks))
    /\ LET lm == Val(landmarks)
       IN  /\ PlaneNormal(lm).dir # Pt(I(0), I(0), I(0))
           /\ Reflection(At(lm, 0), PlanePoint(lm), PlaneNormal(lm)) = At(lm, 2)
           /\ At(lm, 2) # At(lm, 0)

\* the positions in the group list of the groups that are visible, are not
\* the active group and hold index idx
VisibleOthersWith(idx) ==
    {k \in 1 .. Len(groups) :
        groups[k].visible /\ groups[k].id # activeGroupId /\ idx \in groups[k].indices}

\* the active group is in the list and visible, and holds index idx
VisibleActiveHas(idx) ==
    \E k \in 1 .. Len(groups) :
        groups[k].id = activeGroupId /\ groups[k].visible /\ idx \in groups[k].indices

\* C22: while an image and a point set are shown and the active group is
\* visible, every index of the active group has the active group's colour
\* and the active stroke in the style table, and every such landmark is
\* drawn with them, whatever other groups hold the index and wherever the
\* active group stands in the list.
C22_ActiveGroupStyleWins ==
    (imgElement # NULL /\ landmarks # NULL)
    => \A k \in 1 .. Len(groups) :
         (groups[k].id = activeGroupId /\ groups[k].visible)
         => \A idx \in groups[k].indices :
              /\ idx \in DOMAIN pointStyles
              /\ pointStyles[idx].color = groups[k].color
              /\ pointStyles[idx].stroke = "#fff"
              /\ idx \in Indices(Val(landmarks))
                   => /\ DrawnLandmarks[idx].fillStyle = groups[k].color
                      /\ DrawnLandmarks[idx].strokeStyle = "#fff"
                      /\ DrawnLandmarks[idx].radius = RDiv(I(4), scale)

\* the visible active group stands first in a list of three, and a later
\* visible group of another colour holds one of its indices
C22_Witness ==
    /\ imgElement # NULL
    /\ landmarks # NULL
    /\ Len(groups) = 3
    /\ groups[1].id = activeGroupId
    /\ groups[1].visible
    /\ \E idx \in groups[1].indices \cap Indices(Val(landmarks)) :
          /\ groups[3].visible
          /\ idx \in groups[3].indices
          /\ groups[3].color # groups[1].color
          /\ DrawnLandmarks[idx].fillStyle = groups[1].color

\* C23: while an image and a point set are shown, a landmark whose index
\* no visible active group holds is drawn in the colour of the last group
\* in list order among the visible groups, other than the active one,
\* that hold it, with the stroke of a group that is not active; hidden
\* groups, a hidden active group too, give it no style; and a landmark no
\* visible group holds is drawn unselected, in the fill and stroke the dot
\* colour alone determines.
C23_OtherGroupsStyle ==
    (imgElement # NULL /\ landmarks # NULL)
    => \A idx \in Indices(Val(landmarks)) :
         ~VisibleActiveHas(idx)
         => IF VisibleOthersWith(idx) # {}
            THEN LET top == CHOOSE k \in VisibleOthersWith(idx) :
                              \A j \in VisibleOthersWith(idx) : j <= k
                 IN  /\ DrawnLandmarks[idx].fillStyle = groups[top].color
                     /\ DrawnLandmarks[idx].strokeStyle = "rgba(255,255,255,0.5)"
                     /\ DrawnLandmarks[idx].radius = RDiv(I(4), scale)
            ELSE /\ idx \notin DOMAIN pointStyles
                 /\ DrawnLandmarks[idx].radius = RDiv(I(2), scale)
                 /\ DrawnLandmarks[idx].fillStyle =
                        (IF dotColor = "white" THEN "rgba(255, 255, 255, 0.5)"
                         ELSE "rgba(0, 0, 0, 0.5)")
                 /\ DrawnLandmarks[idx].strokeStyle =
                        (IF dotColor = "white" THEN "rgba(0,0,0,0.3)"
                         ELSE "rgba(255,255,255,0.3)")

\* the active group is hidden and holds an index that two visible groups of
\* different colours hold as well; another index is held by hidden groups
\* only and drawn unselected with the black dot colour
C23_Witness ==
    /\ imgElement # NULL
    /\ landmarks # NULL
    /\ dotColor = "black"
    /\ Len(groups) = 3
    /\ groups[2].id = activeGroupId
    /\ ~groups[2].visible
    /\ groups[1].visible
    /\ groups[3].visible
    /\ groups[1].color # groups[3].color
    /\ 0 \in groups[1].indices \cap groups[2].indices \cap groups[3].indices
    /\ DrawnLandmarks[0].fillStyle = groups[3].color
    /\ 2 \in groups[2].indices
    /\ DrawnLandmarks[2].fillStyle = "rgba(0, 0, 0, 0.5)"

\* the indices whose point is within the hover threshold of screen
\* position pos, in the state after the step
HoverCandidates(pos) ==
    LET c == [x |-> RDiv(RSub(I(pos[1]), pan'.x), scale'),
              y |-> RDiv(RSub(I(pos[2]), pan'.y), scale')]
        lm == Val(landmarks')
        img == Val(imgElement')
    IN  {i \in Indices(lm) :
           RLt(DistSq2(WorldOf(lm, img, i), c), RSq(RDiv(I(HoverThreshold), scale')))}

\* C24: a pointer move outside a pan gesture, with an image and a point set
\* shown, leaves hoveredIndex at none when no point is within threshold /
\* scale of the pointer, and otherwise at an index within the threshold
\* than which no other point is nearer to the pointer.
C24_HoverIsClosest ==
    [][(last'.op = "pointerMove" /\ ~isPanning
        /\ landmarks' # NULL /\ imgElement' # NULL)
       => LET near == HoverCandidates(last'.pos)
              c == [x |-> RDiv(RSub(I(last'.pos[1]), pan'.x), scale'),
                    y |-> RDiv(RSub(I(last'.pos[2]), pan'.y), scale')]
              d(i) == DistSq2(WorldOf(Val(landmarks'), Val(imgElement'), i), c)
          IN  IF near = {} THEN hoveredIndex' = NULL
              ELSE /\ hoveredIndex' # NULL
                   /\ Val(hoveredIndex') \in near
                   /\ \A j \in near : RLe(d(Val(hoveredIndex')), d(j))]_vars

\* C25: pointer-up and pointer-leave leave isDragging and isPanning false,
\* whatever they were; only a pointer-down raises either of them; and a
\* pointer-move that finds both false changes neither pan nor the index
\* set of any group.
C25_GestureReset ==
    [][/\ last'.op \in {"pointerUp", "pointerLeave"}
            => ~isDragging' /\ ~isPanning'
       /\ ((isDragging' /\ ~isDragging) \/ (isPanning' /\ ~isPanning))
            => last'.op = "pointerDown"
       /\ (last'.op = "pointerMove" /\ ~isDragging /\ ~isPanning)
            => /\ pan' = pan
               /\ Len(groups') = Len(groups)
               /\ \A k \in 1 .. Len(groups) :
                     groups'[k].indices = groups[k].indices]_vars

\* a pointer-move was handled after the release of a brush drag, in add
\* mode, over a point the active group does not hold
C25_Witness ==
    /\ last.op = "pointerMove"
    /\ ~isDragging
    /\ ~isPanning
    /\ mode = "add"
    /\ \E k \in 1 .. Len(groups) :
          /\ groups[k].id = activeGroupId
          /\ groups[k].indices # {}
          /\ Touched(last.pos) \ groups[k].indices # {}

\* C26: while the image shown is one on which detection found no face, no
\* pointer-down and no pointer-move changes the index set of any group,
\* also when an earlier image had yielded a point set.
C26_NoFaceNoSelection ==
    [][(last'.op \in {"pointerDown", "pointerMove"}
        /\ imgElement # NULL /\ Val(imgElement).detect = "none")
       => /\ Len(groups') = Len(groups)
          /\ \A k \in 1 .. Len(groups) :
                groups'[k].indices = groups[k].indices]_vars

\* C27: a left-button pointer-down with Shift held removes the points the
\* brush touches from the index set of the active group and changes no
\* other group.
C27_ShiftErases ==
    [][(last'.op = "pointerDown" /\ last'.button = 0 /\ last'.shiftKey)
       => /\ Len(groups') = Len(groups)
          /\ \A k \in 1 .. Len(groups) :
                groups'[k].indices =
                    IF groups[k].id = activeGroupId
                    THEN groups[k].indices \ Touched(last'.pos)
                    ELSE groups[k].indices]_vars

\* C28: when the active group is no longer the one that was active when
\* the import was started, the callback of a legacy flat-array import gives
\* the array's elements to the group that is active now, and leaves the
\* index set of the group that was active then as it is.
C28_ImportAppliesAtCallback ==
    [][(last'.op = "import" /\ IsFlatIntegerArray(last'.json)
        /\ importPending # NULL /\ Val(importPending) # activeGroupId)
       => /\ Len(groups') = Len(groups)
          /\ \A k \in 1 .. Len(groups) :
                /\ groups[k].id = activeGroupId
                     => groups'[k].indices = SetOf(last'.json.elems)
                /\ groups[k].id = Val(importPending)
                     => groups'[k].indices = groups[k].indices]_vars

\* C29: an image load on which detection throws or finds no face leaves
\* the group list with every index set, activeGroupId, the point set and
\* the symmetry map exactly as they were.
C29_FailedDetectionKeepsState ==
    [][(last'.op = "imgOnload" /\ last'.img.detect \in {"none", "throws"})
       => /\ groups' = groups
          /\ activeGroupId' = activeGroupId
          /\ landmarks' = landmarks
          /\ symmetryMap' = symmetryMap]_vars

\* an image without a face was loaded while a 169-point set with its map
\* was held, two groups existed and the active one held points
C29_Witness ==
    /\ last.op = "imgOnload"
    /\ last.img.detect = "none"
    /\ landmarks # NULL
    /\ symmetryMap # << >>
    /\ Len(groups) = 2
    /\ activeGroupId = groups[2].id
    /\ groups[2].indices # {}

\* C30: the point set and the symmetry map change in the same step only,
\* and after such a step the map is the one computed from the point set
\* then stored; so in every state that has a point set, copy to the mirror
\* side runs against the map of exactly that point set.
C30_MapOfStoredPointSet ==
    /\ [](landmarks = NULL => symmetryMap = << >>)
    /\ [][(landmarks' # landmarks \/ symmetryMap' # symmetryMap)
           => /\ landmarks' # NULL
              /\ symmetryMap' = calculateSymmetryMap(Val(landmarks'))]_vars

\* copy to the mirror side was handled on the 169-point set: the active
\* group holds point 0 and its mirror point 2
C30_Witness ==
    /\ last.op = "copySpecular"
    /\ landmarks # NULL
    /\ DOMAIN symmetryMap = Indices(Val(landmarks))
    /\ symmetryMap[0] = 2
    /\ \E k \in 1 .. Len(groups) :
          groups[k].id = activeGroupId /\ {0, 2} \subseteq groups[k].indices

\* C31: an image load on which detection finds a face leaves exactly one
\* group, with id 1, name "Default", no index and visible, and makes it the
\* active group, whatever groups and selections there were.
C31_LoadResetsGroups ==
    [][(last'.op = "imgOnload" /\ last'.img.detect = "face")
       => /\ Len(groups') = 1
          /\ groups'[1].id = 1
          /\ groups'[1].name = "Default"
          /\ groups'[1].indices = {}
          /\ groups'[1].visible
          /\ activeGroupId' = 1
          /\ landmarks' = Some(last'.img.face)]_vars

\* the 3-point image was loaded, with a face found, after a brush gesture
\* had begun on an image shown before
C31_Witness ==
    /\ last.op = "imgOnload"
    /\ last.img = TestImage
    /\ isDragging
    /\ landmarks = Some(FaceA)
    /\ symmetryMap = << >>
    /\ groups = <<DefaultGroup>>
    /\ activeGroupId = 1

\* C32: copy to the mirror side turns the index set S of the active group
\* into S with map[i] added for every i of S the map defines, removes no
\* index, and leaves every other group, the list and activeGroupId as they
\* were.
C32_CopyMirroredAddsOnly ==
    [][last'.op = "copySpecular"
       => /\ activeGroupId' = activeGroupId
          /\ Len(groups') = Len(groups)
          /\ \A k \in 1 .. Len(groups) :
                IF groups[k].id = activeGroupId
                THEN /\ groups[k].indices \subseteq groups'[k].indices
                     /\ \A j \in groups'[k].indices \ groups[k].indices :
                           \E i \in groups[k].indices \cap DOMAIN symmetryMap :
                               symmetryMap[i] = j
                     /\ \A i \in groups[k].indices \cap DOMAIN symmetryMap :
                           symmetryMap[i] \in groups'[k].indices
                     /\ [groups'[k] EXCEPT !.indices = {}]
                            = [groups[k] EXCEPT !.indices = {}]
                ELSE groups'[k] = groups[k]]_vars

\* copy to the mirror side was handled on the 169-point set with two
\* groups: the active second group holds points 0 and 4 and their common
\* mirror point 2, the first group holds points and not point 2
C32_Witness ==
    /\ last.op = "copySpecular"
    /\ landmarks # NULL
    /\ DOMAIN symmetryMap = Indices(Val(landmarks))
    /\ Len(groups) = 2
    /\ groups[2].id = activeGroupId
    /\ {0, 2, 4} \subseteq groups[2].indices
    /\ symmetryMap[0] = 2
    /\ symmetryMap[4] = 2
    /\ groups[1].indices # {}
    /\ 2 \notin groups[1].indices

\* no group of the list gets another index set in the step
IndexSetsKept ==
    /\ Len(groups') = Len(groups)
    /\ \A k \in 1 .. Len(groups) : groups'[k].indices = groups[k].indices

====
